---- MODULE Spec2Model ----
(***************************************************************************)
(* A model of the virtual-ta repository: the forum crawl                   *)
(* (app/scrape_discourse.py), the ingestion pipeline (app/ingest.py), the  *)
(* query endpoint (app/main.py), the chunker chunk_text of the pipeline on *)
(* its own, and the documentation crawl (app/scrape_tds.py).  The programs *)
(* are separate processes; a behaviour follows one of them, the others     *)
(* stay off.                                                               *)
(***************************************************************************)
EXTENDS Integers, Sequences, FiniteSets, TLC

(***************************************************************************)
(* Bounds of the model.                                                    *)
(***************************************************************************)
\* the search query matches at most this many posts
MaxResults == 3
\* the forum returns this many search results per page
PageSize == 2
\* the per-post count of completed fetches saturates here
MaxFetchCount == 2
\* the small documents of the ingestion corpora have up to this many chunks
SmallChunks == 2
\* embedding calls that may fail in one ingestion run
MaxEmbedFailures == 1
\* upsert calls that may fail in one ingestion run
MaxUpsertFailures == 1
\* passages a search returns at most (the code asks for limit=5)
MaxHits == 2
\* tokens of a completion before its SOURCES line
MaxPre == 2
\* identifiers listed in a SOURCES line
MaxCited == 2
\* characters of a text given to chunk_text
MaxText == 6
\* the size given to chunk_text
MaxSize == 4
\* the overlap given to chunk_text
MaxOverlap == 2
\* sidebar links of a page of the documentation site
MaxLinks == 2

(***************************************************************************)
(* Generic helpers.                                                        *)
(***************************************************************************)
Min(a, b) == IF a <= b THEN a ELSE b

SeqsUpTo(S, n) == UNION {[1..m -> S] : m \in 0..n}

\* the sequences of at most n distinct elements of S
DistinctSeqsUpTo(S, n) ==
    {s \in SeqsUpTo(S, n) : \A i, j \in DOMAIN s : s[i] = s[j] => i = j}

Range(s) == {s[i] : i \in DOMAIN s}

IsPrefix(s, t) == Len(s) <= Len(t) /\ SubSeq(t, 1, Len(s)) = s

(***************************************************************************)
(* The forum (the remote server of scrape_discourse.py).  A post id is an  *)
(* index into Forum; ts is the post's created_at, topic its topic_id.      *)
(* Window is the crawl's [start_date, end_date].                           *)
(***************************************************************************)
Forum ==
    << [topic |-> 1, ts |-> 2],
       [topic |-> 1, ts |-> 3],
       [topic |-> 1, ts |-> 4],
       [topic |-> 2, ts |-> 3],
       [topic |-> 2, ts |-> 1] >>

PostIds == DOMAIN Forum

Topics == {Forum[p].topic : p \in PostIds}

Window == [start |-> 2, end |-> 3]

\* GET /t/{topic_id}.json: post_stream.stream, the topic's post ids in order
Stream(t) == SelectSeq([i \in PostIds |-> i], LAMBDA p : Forum[p].topic = t)

\* GET /search.json?page=n: the posts of page n (empty past the last result)
PageOf(res, n) ==
    SubSeq(res, (n - 1) * PageSize + 1, Min(n * PageSize, Len(res)))

NoSlug == "none"
\* the snapshot file: absent, or a JSON array of entries, or a file that
\* open(filename, "w") has truncated and json.dump has not finished (not a
\* JSON document)
NoFile == [state |-> "absent", entries |-> <<>>]

Partial == [state |-> "partial", entries |-> <<>>]

JsonFile(entries) == [state |-> "json", entries |-> entries]

VARIABLES
    \* ---- scrape_discourse.py: files
    snapshot,           \* posts_<start>_to_<end>.json: NoFile, Partial or entries
    ldjson,             \* line_delimited/posts_<start>_to_<end>.ldjson (lines)
    other_ldjson,       \* the .ldjson file of another window in LDJSON_DIR
    \* ---- scrape_discourse.py: the process
    pc,                 \* the pending request, or idle/saving/done/dead/failed
    page, all_posts, topics_map,
    posts, k,           \* the current search page's posts and the loop index
    topic_id, existing_post_ids,
    post_ids, idx,      \* process_topic_posts: the stream and the loop index
    rl,                 \* the last response carried the rate-limit signal
    results,            \* the server's search results for the window's query
    \* ---- scrape_discourse.py: history
    ckptAtStart,        \* post ids of the merged checkpoint loaded by this run
    reqRun,             \* post ids this run requested details or replies for
    fetchedRun,         \* post ids this run fetched completely
    appendedRun,        \* post ids this run appended to the log
    boundaryHit,        \* this run met a search post older than start
    streamsDone,        \* topics whose stream this run processed to its end
    fetchCount,         \* per post: completed fetch_post_details calls, all runs
    renamed,            \* the forum: topic 1 has been renamed (its slug changed)
    \* ---- ingest.py
    ipc,                \* the pending provider call, or off/start/done
    tds_files,          \* data/raw/tds: per file the number of chunks
    disc_files,         \* data/raw/discourse: per file its posts, or bad JSON
    point_id, batch_points,
    fi, pi, ci,         \* the file, post and chunk the loops are at
    upsertedIds,        \* ids of the points of all client.upsert calls so far
    sentCount,          \* number of points of all client.upsert calls so far
    embedFailsLeft, upsertFailsLeft,    \* failures the providers may still show
    embeddedCount,      \* embeddings that came back in the run
    failedIds,          \* ids of the points of the upsert calls that raised
    \* ---- main.py: one request of POST /query
    qpc,                \* the pending provider call, or off/start/responded
    image,              \* req.image: "none", "valid" or "invalid" base64
    image_resp_text,    \* the image description: "none", "text"
    contexts,           \* contexts_with_ids, the retrieved passages
    completion,         \* answer_full as it came from the provider (tokens)
    made,               \* how the provider composed it (pre, SOURCES ids, post)
    response,           \* status, answer (tokens) and links of the response
    completionCalls,    \* chat.completions.create calls made for the request
    returned,           \* what each provider call of the request came back with
    \* ---- ingest.py, ingest_tds.py: one call of chunk_text
    cpc,                \* off, start, loop (the for of line 29) or done
    text, size, overlap, \* the arguments
    sentences,          \* re.findall's result
    si,                 \* the index in sentences of the sentence of the loop
    current_chunk,
    chunks,
    seeds               \* per rollover: the chunk emitted and the sentence at hand

diskVars == <<snapshot, ldjson, other_ldjson>>

memVars == <<page, all_posts, topics_map, posts, k, topic_id,
             existing_post_ids, post_ids, idx, rl>>

histVars == <<ckptAtStart, reqRun, fetchedRun, appendedRun, boundaryHit,
             streamsDone>>

crawlVars == <<diskVars, pc, memVars, results, histVars, fetchCount, renamed>>

ingestVars == <<ipc, tds_files, disc_files, point_id, batch_points, fi, pi, ci,
               upsertedIds, sentCount, embedFailsLeft, upsertFailsLeft,
               embeddedCount, failedIds>>

queryVars == <<qpc, image, image_resp_text, contexts, completion, made,
              response, completionCalls, returned>>

chunkVars == <<cpc, text, size, overlap, sentences, si, current_chunk, chunks,
              seeds>>

VARIABLES
    \* ---- scrape_tds.py: scrape_url
    dpc,                \* "off", "run", "done" or "failed"
    sidebar,            \* the site: per page, the hrefs of its sidebar links
    start_url,          \* the argument of scrape_url
    visited,            \* the set of normalized urls
    frames,             \* the calls of visit in progress: the links found on
                        \* the page and the index of the next one to look at
    fetched             \* history: the urls given to page.goto, in order

docsVars == <<dpc, sidebar, start_url, visited, frames, fetched>>

vars == <<crawlVars, ingestVars, queryVars, chunkVars, docsVars>>

(***************************************************************************)
(* scrape_discourse.py: pure parts.                                        *)
(***************************************************************************)
\* process_topic_posts: not (created_at < start_dt or created_at > end_dt)
InWindow(p) == Forum[p].ts >= Window.start /\ Forum[p].ts <= Window.end

\* the slug the server reports for a topic in the "topics" list of a search
\* page; topic 1 gets another slug when it is renamed
ServerSlug(t) ==
    IF t = 1 THEN (IF renamed THEN "slug-a2" ELSE "slug-a") ELSE "slug-b"

\* build_post_entry: topics_map.get(topic_id, "unknown-topic") goes into url
SlugOf(tmap, t) == IF tmap[t] = NoSlug THEN "unknown-topic" ELSE tmap[t]

\* build_post_entry: the entry of post p; url is determined by the slug
\* (topic_id and post_number are the post's own)
build_post_entry(p, tmap) == [id |-> p, slug |-> SlugOf(tmap, Forum[p].topic)]

save_postsBug(allp, tmap) ==
    [i \in 1..Min(Len(allp), 1) |-> build_post_entry(allp[i], tmap)]

\* save_posts: the JSON array written to the snapshot
save_posts(allp, tmap) ==
    [i \in 1..Len(allp) |-> build_post_entry(allp[i], tmap)]

NoteSlugBug(tmap, e) == tmap

\* topics_map[topic_id] = topics_map.get(topic_id, None) or topic_slug
NoteSlug(tmap, e) ==
    [tmap EXCEPT ![Forum[e.id].topic] = IF @ # NoSlug THEN @ ELSE e.slug]

RECURSIVE LoadSnapshot(_, _)
\* load_existing_posts, lines 33-42: every entry of the snapshot
LoadSnapshot(entries, acc) ==
    IF entries = <<>> THEN acc
    ELSE LoadSnapshot(Tail(entries),
            [all_posts |-> Append(acc.all_posts, Head(entries).id),
             ids |-> acc.ids \cup {Head(entries).id},
             topics_map |-> NoteSlug(acc.topics_map, Head(entries))])

RECURSIVE LoadLinesBug(_, _)
LoadLinesBug(lines, acc) ==
    IF lines = <<>> THEN acc
    ELSE LoadLinesBug(Tail(lines),
            [all_posts |-> Append(acc.all_posts, Head(lines).id),
             ids |-> acc.ids \cup {Head(lines).id},
             topics_map |-> NoteSlug(acc.topics_map, Head(lines))])

RECURSIVE LoadLines(_, _)
\* load_existing_posts, lines 45-63: the lines of the .ldjson files, in
\* os.listdir order, each kept unless its id is already loaded
LoadLines(lines, acc) ==
    IF lines = <<>> THEN acc
    ELSE LoadLines(Tail(lines),
            IF Head(lines).id \in acc.ids THEN acc
            ELSE [all_posts |-> Append(acc.all_posts, Head(lines).id),
                  ids |-> acc.ids \cup {Head(lines).id},
                  topics_map |-> NoteSlug(acc.topics_map, Head(lines))])

load_existing_posts(snap, lines) ==
    LoadLines(lines,
        LoadSnapshot(snap.entries,
            [all_posts |-> <<>>, ids |-> {},
             topics_map |-> [t \in Topics |-> NoSlug]]))

\* build_topic_map: a topic already in the map keeps its slug
build_topic_map(ps, tmap) ==
    [t \in Topics |->
        IF tmap[t] = NoSlug /\ \E i \in DOMAIN ps : Forum[ps[i]].topic = t
        THEN ServerSlug(t) ELSE tmap[t]]

ExistingPostIdsBug(allp, t) == {}

\* scrape_discourse, lines 289-290
ExistingPostIds(allp, t) ==
    {allp[i] : i \in {n \in DOMAIN allp : Forum[allp[n]].topic = t}}

RECURSIVE ScanPostsBug(_, _)
ScanPostsBug(ps, j) ==
    IF j > Len(ps) THEN [pc |-> "search", k |-> 0, old |-> FALSE]
    ELSE IF Forum[ps[j]].ts < Window.start
         THEN [ScanPostsBug(ps, j + 1) EXCEPT !.old = TRUE]
    ELSE IF Forum[ps[j]].ts <= Window.end
         THEN [pc |-> "topic", k |-> j, old |-> FALSE]
    ELSE ScanPostsBug(ps, j + 1)

RECURSIVE ScanPosts(_, _)
\* scrape_discourse, lines 279-296: from posts[j] on, up to the next thing
\* done: the boundary save (old: a post older than start was met), a topic
\* request, or the next search page
ScanPosts(ps, j) ==
    IF j > Len(ps) THEN [pc |-> "search", k |-> 0, old |-> FALSE]
    ELSE IF Forum[ps[j]].ts < Window.start
         THEN [pc |-> "saving", k |-> j, old |-> TRUE]
    ELSE IF Forum[ps[j]].ts <= Window.end
         THEN [pc |-> "topic", k |-> j, old |-> FALSE]
    ELSE ScanPosts(ps, j + 1)

RECURSIVE NextToFetch(_, _, _)
\* process_topic_posts, lines 200-203: the index of the next post id of the
\* stream that is not skipped, 0 when the loop ends
NextToFetch(ids, i, existing) ==
    IF i > Len(ids) THEN 0
    ELSE IF ids[i] \in existing THEN NextToFetch(ids, i + 1, existing)
    ELSE i

RequestStates == {"search", "topic", "post", "replies"}

\* the request the process is waiting on
PendingRequest ==
    CASE pc = "search" -> <<"search", page>>
      [] pc = "topic" -> <<"topic", topic_id>>
      [] pc = "post" -> <<"post", post_ids[idx]>>
      [] pc = "replies" -> <<"replies", post_ids[idx]>>
      [] OTHER -> <<"none", 0>>

Ids(entries) == {entries[i].id : i \in DOMAIN entries}

(***************************************************************************)
(* scrape_discourse.py: actions.  An action is what the process does from  *)
(* one response to the next request (the only suspension points).          *)
(***************************************************************************)
CrawlInit ==
    /\ snapshot = NoFile
    /\ ldjson = <<>>
    /\ other_ldjson \in {<<>>, <<[id |-> 3, slug |-> "slug-a"]>>}
    /\ pc = "idle"
    /\ page = 0
    /\ all_posts = <<>>
    /\ topics_map = [t \in Topics |-> NoSlug]
    /\ posts = <<>>
    /\ k = 0
    /\ topic_id = 0
    /\ existing_post_ids = {}
    /\ post_ids = <<>>
    /\ idx = 0
    /\ rl = FALSE
    /\ results \in DistinctSeqsUpTo(PostIds, MaxResults)
    /\ ckptAtStart = {}
    /\ reqRun = {}
    /\ fetchedRun = {}
    /\ appendedRun = {}
    /\ boundaryHit = FALSE
    /\ streamsDone = {}
    /\ fetchCount = [p \in PostIds |-> 0]
    /\ renamed = FALSE

\* the process is gone: its memory with it
ProcessGone(state) ==
    /\ pc' = state
    /\ page' = 0
    /\ all_posts' = <<>>
    /\ topics_map' = [t \in Topics |-> NoSlug]
    /\ posts' = <<>>
    /\ k' = 0
    /\ topic_id' = 0
    /\ existing_post_ids' = {}
    /\ post_ids' = <<>>
    /\ idx' = 0
    /\ rl' = FALSE
    /\ ckptAtStart' = {}
    /\ reqRun' = {}
    /\ fetchedRun' = {}
    /\ appendedRun' = {}
    /\ boundaryHit' = FALSE
    /\ streamsDone' = {}

\* scrape_discourse, lines 227-252: load the checkpoint, open the log for
\* append, request page 1.  json.load of a partial snapshot raises.
Start ==
    /\ pc \in {"idle", "dead", "failed", "load_failed", "done"}
    /\ IF snapshot.state = "partial"
       THEN /\ ProcessGone("load_failed")
            /\ UNCHANGED <<diskVars, results, fetchCount>>
       ELSE \E lines \in {ldjson \o other_ldjson, other_ldjson \o ldjson} :
            LET L == load_existing_posts(snapshot, lines) IN
            /\ pc' = "search"
            /\ page' = 1
            /\ all_posts' = L.all_posts
            /\ topics_map' = L.topics_map
            /\ posts' = <<>>
            /\ k' = 0
            /\ topic_id' = 0
            /\ existing_post_ids' = {}
            /\ post_ids' = <<>>
            /\ idx' = 0
            /\ rl' = FALSE
            /\ ckptAtStart' = Range(L.all_posts)
            /\ reqRun' = {}
            /\ fetchedRun' = {}
            /\ appendedRun' = {}
            /\ boundaryHit' = FALSE
            /\ streamsDone' = {}
            /\ UNCHANGED <<diskVars, results, fetchCount>>
    /\ UNCHANGED <<renamed, ingestVars, queryVars, chunkVars, docsVars>>

NextPageBug(n) == n

\* line 295: page += 1
NextPage(n) == n + 1

\* scrape_discourse, lines 279-296, entered at posts[j]
ContinueScan(ps, j, allp) ==
    LET s == ScanPosts(ps, j) IN
    /\ pc' = s.pc
    /\ k' = s.k
    /\ page' = IF s.pc = "search" THEN NextPage(page) ELSE page
    /\ topic_id' = IF s.pc = "topic" THEN Forum[ps[s.k]].topic ELSE 0
    /\ existing_post_ids' =
          IF s.pc = "topic" THEN ExistingPostIds(allp, Forum[ps[s.k]].topic)
          ELSE {}
    /\ snapshot' = IF s.pc = "saving" THEN Partial ELSE snapshot
    /\ boundaryHit' = s.old
    /\ post_ids' = <<>>
    /\ idx' = 0

SearchRateLimitedBug ==
    /\ pc = "search"
    /\ rl' = TRUE
    /\ page' = page + 1
    /\ UNCHANGED <<diskVars, pc, all_posts, topics_map, posts, k,
                   topic_id, existing_post_ids, post_ids, idx, results,
                   histVars, fetchCount>>
    /\ UNCHANGED <<renamed, ingestVars, queryVars, chunkVars, docsVars>>

\* scrape_discourse, lines 252-256 and 257-264: the search response carries
\* the rate-limit signal; sleep and request the same page again
SearchRateLimited ==
    /\ pc = "search"
    /\ rl' = TRUE
    /\ UNCHANGED <<diskVars, pc, page, all_posts, topics_map, posts, k,
                   topic_id, existing_post_ids, post_ids, idx, results,
                   histVars, fetchCount>>
    /\ UNCHANGED <<renamed, ingestVars, queryVars, chunkVars, docsVars>>

\* scrape_discourse, lines 267-296: a search page arrives
SearchOK ==
    /\ pc = "search"
    /\ rl' = FALSE
    /\ LET ps == PageOf(results, page) IN
       /\ posts' = ps
       /\ IF ps = <<>>
          THEN \* lines 273-275 and 298-299
               /\ pc' = "saving"
               /\ snapshot' = Partial
               /\ UNCHANGED <<page, topics_map, k, topic_id,
                              existing_post_ids, post_ids, idx, boundaryHit>>
          ELSE /\ topics_map' = build_topic_map(ps, topics_map)
               /\ ContinueScan(ps, 1, all_posts)
    /\ UNCHANGED <<ldjson, other_ldjson, all_posts, results, ckptAtStart,
                   reqRun, fetchedRun, appendedRun, streamsDone, fetchCount>>
    /\ UNCHANGED <<renamed, ingestVars, queryVars, chunkVars, docsVars>>

\* fetch_topic_posts, lines 140-147
TopicRateLimited ==
    /\ pc = "topic"
    /\ rl' = TRUE
    /\ UNCHANGED <<diskVars, pc, page, all_posts, topics_map, posts, k,
                   topic_id, existing_post_ids, post_ids, idx, results,
                   histVars, fetchCount>>
    /\ UNCHANGED <<renamed, ingestVars, queryVars, chunkVars, docsVars>>

\* fetch_topic_posts, lines 151-155, then process_topic_posts up to the
\* first post-details request
TopicOK ==
    /\ pc = "topic"
    /\ rl' = FALSE
    /\ LET ids == Stream(topic_id)
           i == NextToFetch(ids, 1, existing_post_ids) IN
       IF i = 0
       THEN /\ ContinueScan(posts, k + 1, all_posts)
            /\ streamsDone' = streamsDone \cup {topic_id}
            /\ UNCHANGED reqRun
       ELSE /\ pc' = "post"
            /\ post_ids' = ids
            /\ idx' = i
            /\ reqRun' = reqRun \cup {ids[i]}
            /\ UNCHANGED <<snapshot, page, k, topic_id, existing_post_ids,
                           boundaryHit, streamsDone>>
    /\ UNCHANGED <<ldjson, other_ldjson, all_posts, topics_map, posts,
                   results, ckptAtStart, fetchedRun, appendedRun, fetchCount>>
    /\ UNCHANGED <<renamed, ingestVars, queryVars, chunkVars, docsVars>>

\* fetch_post_details, lines 163-170
PostRateLimited ==
    /\ pc = "post"
    /\ rl' = TRUE
    /\ UNCHANGED <<diskVars, pc, page, all_posts, topics_map, posts, k,
                   topic_id, existing_post_ids, post_ids, idx, results,
                   histVars, fetchCount>>
    /\ UNCHANGED <<renamed, ingestVars, queryVars, chunkVars, docsVars>>

\* fetch_post_details, lines 173-179: the post arrives, request its replies
PostOK ==
    /\ pc = "post"
    /\ rl' = FALSE
    /\ pc' = "replies"
    /\ UNCHANGED <<diskVars, page, all_posts, topics_map, posts, k, topic_id,
                   existing_post_ids, post_ids, idx, results, histVars,
                   fetchCount>>
    /\ UNCHANGED <<renamed, ingestVars, queryVars, chunkVars, docsVars>>

\* fetch_post_details, lines 180-187
RepliesRateLimited ==
    /\ pc = "replies"
    /\ rl' = TRUE
    /\ UNCHANGED <<diskVars, pc, page, all_posts, topics_map, posts, k,
                   topic_id, existing_post_ids, post_ids, idx, results,
                   histVars, fetchCount>>
    /\ UNCHANGED <<renamed, ingestVars, queryVars, chunkVars, docsVars>>

\* append_post_ldjson: one line written and flushed
append_post_ldjson(log, p, tmap) == Append(log, build_post_entry(p, tmap))

\* fetch_post_details, lines 190-196, and process_topic_posts, lines 206-216:
\* the replies arrive; the post is filtered, kept and logged; the loop goes
\* on to the next post-details request or returns to the search page's loop
RepliesOK ==
    /\ pc = "replies"
    /\ rl' = FALSE
    /\ LET p == post_ids[idx]
           allp == IF InWindow(p) THEN Append(all_posts, p) ELSE all_posts
           i == NextToFetch(post_ids, idx + 1, existing_post_ids) IN
       /\ fetchedRun' = fetchedRun \cup {p}
       /\ all_posts' = allp
       /\ ldjson' = IF InWindow(p)
                    THEN append_post_ldjson(ldjson, p, topics_map)
                    ELSE ldjson
       /\ appendedRun' = IF InWindow(p) THEN appendedRun \cup {p}
                         ELSE appendedRun
       /\ IF i = 0
          THEN /\ ContinueScan(posts, k + 1, allp)
               /\ streamsDone' = streamsDone \cup {topic_id}
               /\ UNCHANGED reqRun
          ELSE /\ pc' = "post"
               /\ idx' = i
               /\ reqRun' = reqRun \cup {post_ids[i]}
               /\ UNCHANGED <<snapshot, page, k, topic_id, existing_post_ids,
                              post_ids, boundaryHit, streamsDone>>
       /\ fetchCount' = [fetchCount EXCEPT ![p] = Min(@ + 1, MaxFetchCount)]
    /\ UNCHANGED <<other_ldjson, topics_map, posts, results, ckptAtStart>>
    /\ UNCHANGED <<renamed, ingestVars, queryVars, chunkVars, docsVars>>

\* raise_for_status (lines 151, 173, 190, 267): any other error response
\* raises out of scrape_discourse
RequestError ==
    /\ pc \in RequestStates
    /\ ProcessGone("failed")
    /\ UNCHANGED <<diskVars, results, fetchCount>>
    /\ UNCHANGED <<renamed, ingestVars, queryVars, chunkVars, docsVars>>

\* save_posts, lines 122-124: json.dump completes; the run is over
SaveWrite ==
    /\ pc = "saving"
    /\ snapshot' = JsonFile(save_posts(all_posts, topics_map))
    /\ pc' = "done"
    /\ UNCHANGED <<ldjson, other_ldjson, memVars, results, histVars,
                   fetchCount>>
    /\ UNCHANGED <<renamed, ingestVars, queryVars, chunkVars, docsVars>>

\* the process is killed while it waits on a request or writes the snapshot
Crash ==
    /\ pc \in RequestStates \cup {"saving"}
    /\ ProcessGone("dead")
    /\ UNCHANGED <<diskVars, results, fetchCount>>
    /\ UNCHANGED <<renamed, ingestVars, queryVars, chunkVars, docsVars>>

\* the forum: the title of topic 1 is edited; from now on the server reports
\* another slug for it (build_topic_map reads topic["slug"])
TopicRenamed ==
    /\ pc # "off"
    /\ ~renamed
    /\ renamed' = TRUE
    /\ UNCHANGED <<diskVars, pc, memVars, results, histVars, fetchCount>>
    /\ UNCHANGED <<ingestVars, queryVars, chunkVars, docsVars>>

CrawlNext ==
    \/ Start
    \/ SearchRateLimited
    \/ SearchOK
    \/ TopicRateLimited
    \/ TopicOK
    \/ PostRateLimited
    \/ PostOK
    \/ RepliesRateLimited
    \/ RepliesOK
    \/ RequestError
    \/ SaveWrite
    \/ Crash
    \/ TopicRenamed

(***************************************************************************)
(* ingest.py.  A document is modelled by the number of chunks chunk_text   *)
(* makes of it; a point by its id and the chunk it carries.  An action is  *)
(* what ingest() does from one provider response (embedding or upsert) to  *)
(* the next provider call.                                                 *)
(***************************************************************************)
\* ingest_tds_data line 95 and process_post line 184: the batch size
BatchSize == 100

\* ingest_discourse_data line 196: point_id = 3000
DiscourseOffset == 3000

\* ingest_tds_data line 53: point_id = 0
TdsOffset == 0

GoodFile(ps) == [ok |-> TRUE, posts |-> ps, bad_reply |-> {}]

\* a file of data/raw/discourse on which json.load raises
BadFile == [ok |-> FALSE, posts |-> <<>>, bad_reply |-> {}]

\* a file whose posts bad have a non-empty raw body and a reply body on which
\* BeautifulSoup(reply_html, "html.parser") raises
MalformedReplyFile(ps, bad) == [ok |-> TRUE, posts |-> ps, bad_reply |-> bad]

\* the corpora the runs are explored on: files of a few chunks, a file that
\* fills a batch, and a flat-file corpus of more chunks than DiscourseOffset
TdsCorpora ==
    { <<>>, <<SmallChunks>>, <<1, 0, SmallChunks + 1>>, <<BatchSize + 1>>,
      <<DiscourseOffset + 1>> }

DiscCorpora ==
    { <<>>,
      <<GoodFile(<<SmallChunks>>)>>,
      <<GoodFile(<<0, 1>>), BadFile, GoodFile(<<SmallChunks, 1>>)>>,
      <<GoodFile(<<BatchSize + 1, 1>>)>>,
      <<MalformedReplyFile(<<1, SmallChunks, 1>>, {2}), GoodFile(<<1>>)>> }

RECURSIVE SumSeq(_)
SumSeq(q) == IF q = <<>> THEN 0 ELSE Head(q) + SumSeq(Tail(q))

\* embedding failures are explored on the corpora of at most this many
\* chunks, upsert failures on all
IsSmall(tds) == SumSeq(tds) <= BatchSize + 1

PointStruct(id, doc, chunk) == [id |-> id, doc |-> doc, chunk |-> chunk]

PointIds(points) == {points[n].id : n \in DOMAIN points}

NextIdBug(pid) == pid

\* lines 93 and 181: point_id += 1
NextId(pid) == pid + 1

BatchFullBug(batch) == Len(batch) > BatchSize

\* lines 95 and 184: len(batch_points) == 100
BatchFull(batch) == Len(batch) = BatchSize

RECURSIVE TdsAdvance(_, _, _)
\* ingest_tds_data, lines 54-64: the next chunk to embed from chunk c of file
\* f on; fresh: a new file was begun, with an empty batch (line 62)
TdsAdvance(files, f, c) ==
    IF f > Len(files)
    THEN [ipc |-> "tds_end", fi |-> f, ci |-> 0, fresh |-> FALSE]
    ELSE IF c > files[f]
         THEN [TdsAdvance(files, f + 1, 1) EXCEPT !.fresh = TRUE]
    ELSE [ipc |-> "tds_embed", fi |-> f, ci |-> c, fresh |-> FALSE]

RECURSIVE DiscAdvance(_, _, _, _, _)
\* ingest_discourse_data, lines 198-216, and process_post, lines 151-167: the
\* next chunk to embed from chunk c of post p of file f on, or the upsert of
\* the batch left at the end of file f (pending: the batch is not empty), or
\* the exception of parse_replies_html_to_text (lines 116-117), which nothing
\* catches, at the start of a post with a malformed reply
DiscAdvance(files, f, p, c, pending) ==
    IF f > Len(files) THEN [ipc |-> "done", fi |-> f, pi |-> 0, ci |-> 0]
    ELSE IF ~files[f].ok THEN DiscAdvance(files, f + 1, 1, 1, FALSE)
    ELSE IF p > Len(files[f].posts)
         THEN IF pending
              THEN [ipc |-> "disc_flush", fi |-> f, pi |-> p, ci |-> 0]
              ELSE DiscAdvance(files, f + 1, 1, 1, FALSE)
    ELSE IF c = 1 /\ p \in files[f].bad_reply
         THEN [ipc |-> "aborted", fi |-> f, pi |-> p, ci |-> 0]
    ELSE IF c > files[f].posts[p] THEN DiscAdvance(files, f, p + 1, 1, pending)
    ELSE [ipc |-> "disc_embed", fi |-> f, pi |-> p, ci |-> c]

IngestInit ==
    /\ ipc = "start"
    /\ tds_files \in TdsCorpora
    /\ disc_files \in DiscCorpora
    /\ point_id = 0
    /\ batch_points = <<>>
    /\ fi = 0
    /\ pi = 0
    /\ ci = 0
    /\ upsertedIds = {}
    /\ sentCount = 0
    /\ embeddedCount = 0
    /\ failedIds = {}
    /\ embedFailsLeft \in
          IF IsSmall(tds_files) THEN 0..MaxEmbedFailures ELSE {0}
    /\ upsertFailsLeft \in 0..MaxUpsertFailures

IngestOff ==
    /\ ipc = "off"
    /\ tds_files = <<>>
    /\ disc_files = <<>>
    /\ point_id = 0
    /\ batch_points = <<>>
    /\ fi = 0
    /\ pi = 0
    /\ ci = 0
    /\ upsertedIds = {}
    /\ sentCount = 0
    /\ embeddedCount = 0
    /\ failedIds = {}
    /\ embedFailsLeft = 0
    /\ upsertFailsLeft = 0

\* the files do not change during a run
IngestFrame ==
    UNCHANGED <<tds_files, disc_files, crawlVars, queryVars, chunkVars,
                docsVars>>

\* ingest_discourse_data and process_post from chunk c of post p of file f on
DiscGoto(f, p, c, batch, pid) ==
    LET d == DiscAdvance(disc_files, f, p, c, batch # <<>>) IN
    /\ ipc' = d.ipc
    /\ fi' = d.fi
    /\ pi' = d.pi
    /\ ci' = d.ci
    /\ point_id' = pid
    /\ batch_points' = IF d.fi = f THEN batch ELSE <<>>

\* ingest_tds_data from chunk c of file f on; past the last file
\* ingest_discourse_data starts with point_id = DiscourseOffset
TdsGoto(f, c, batch, pid) ==
    LET t == TdsAdvance(tds_files, f, c) IN
    IF t.ipc = "tds_end"
    THEN DiscGoto(1, 1, 1, <<>>, DiscourseOffset)
    ELSE /\ ipc' = t.ipc
         /\ fi' = t.fi
         /\ pi' = 0
         /\ ci' = t.ci
         /\ point_id' = pid
         /\ batch_points' = IF t.fresh THEN <<>> ELSE batch

\* client.upsert(points=batch) was called
Sent(batch) ==
    /\ upsertedIds' = upsertedIds \cup PointIds(batch)
    /\ sentCount' = sentCount + Len(batch)

\* ingest(), lines 221-222, and ingest_tds_data up to the first embedding call
IngestStart ==
    /\ ipc = "start"
    /\ TdsGoto(1, 1, <<>>, TdsOffset)
    /\ UNCHANGED <<upsertedIds, sentCount, embedFailsLeft, upsertFailsLeft>>
    /\ UNCHANGED <<embeddedCount, failedIds>>
    /\ IngestFrame

\* ingest_tds_data, lines 74-95: the embedding arrives; the point is added
\* and the batch goes out when it is full or the file's last chunk was added
TdsEmbedOK ==
    /\ ipc = "tds_embed"
    /\ LET batch == Append(batch_points,
                           PointStruct(point_id, <<"tds", fi>>, ci)) IN
       IF BatchFull(batch) \/ (ci = tds_files[fi] /\ batch # <<>>)
       THEN /\ ipc' = "tds_upsert"
            /\ batch_points' = batch
            /\ point_id' = NextId(point_id)
            /\ UNCHANGED <<fi, pi, ci>>
       ELSE TdsGoto(fi, ci + 1, batch, NextId(point_id))
    /\ UNCHANGED <<upsertedIds, sentCount, embedFailsLeft, upsertFailsLeft>>
    /\ embeddedCount' = embeddedCount + 1
    /\ UNCHANGED failedIds
    /\ IngestFrame

\* ingest_tds_data, lines 75-77: the embedding call raises; continue with the
\* next chunk
TdsEmbedFail ==
    /\ ipc = "tds_embed"
    /\ embedFailsLeft > 0
    /\ embedFailsLeft' = embedFailsLeft - 1
    /\ TdsGoto(fi, ci + 1, batch_points, point_id)
    /\ UNCHANGED <<upsertedIds, sentCount, upsertFailsLeft>>
    /\ UNCHANGED <<embeddedCount, failedIds>>
    /\ IngestFrame

\* ingest_tds_data, lines 96-103: client.upsert returns
TdsUpsertOK ==
    /\ ipc = "tds_upsert"
    /\ Sent(batch_points)
    /\ TdsGoto(fi, ci + 1, <<>>, point_id)
    /\ UNCHANGED <<embedFailsLeft, upsertFailsLeft>>
    /\ UNCHANGED <<embeddedCount, failedIds>>
    /\ IngestFrame

\* ingest_tds_data, lines 101-103: client.upsert raises; logged, batch dropped
TdsUpsertFail ==
    /\ ipc = "tds_upsert"
    /\ upsertFailsLeft > 0
    /\ upsertFailsLeft' = upsertFailsLeft - 1
    /\ Sent(batch_points)
    /\ TdsGoto(fi, ci + 1, <<>>, point_id)
    /\ UNCHANGED embedFailsLeft
    /\ failedIds' = failedIds \cup PointIds(batch_points)
    /\ UNCHANGED embeddedCount
    /\ IngestFrame

\* embed_chunk, lines 124-130, and process_post, lines 168-186: the embedding
\* arrives; the point is added and a full batch goes out
DiscEmbedOK ==
    /\ ipc = "disc_embed"
    /\ LET batch == Append(batch_points,
                           PointStruct(point_id, <<"discourse", fi, pi>>, ci)) IN
       IF BatchFull(batch)
       THEN /\ ipc' = "disc_upsert"
            /\ batch_points' = batch
            /\ point_id' = NextId(point_id)
            /\ UNCHANGED <<fi, pi, ci>>
       ELSE DiscGoto(fi, pi, ci + 1, batch, NextId(point_id))
    /\ UNCHANGED <<upsertedIds, sentCount, embedFailsLeft, upsertFailsLeft>>
    /\ embeddedCount' = embeddedCount + 1
    /\ UNCHANGED failedIds
    /\ IngestFrame

\* embed_chunk, lines 131-133, and process_post, lines 169-170: no embedding;
\* continue with the next chunk
DiscEmbedFail ==
    /\ ipc = "disc_embed"
    /\ embedFailsLeft > 0
    /\ embedFailsLeft' = embedFailsLeft - 1
    /\ DiscGoto(fi, pi, ci + 1, batch_points, point_id)
    /\ UNCHANGED <<upsertedIds, sentCount, upsertFailsLeft>>
    /\ UNCHANGED <<embeddedCount, failedIds>>
    /\ IngestFrame

\* upsert_batch_points called from process_post, lines 184-186
DiscUpsertOK ==
    /\ ipc = "disc_upsert"
    /\ Sent(batch_points)
    /\ DiscGoto(fi, pi, ci + 1, <<>>, point_id)
    /\ UNCHANGED <<embedFailsLeft, upsertFailsLeft>>
    /\ UNCHANGED <<embeddedCount, failedIds>>
    /\ IngestFrame

\* upsert_batch_points, lines 145-146: client.upsert raises; logged
DiscUpsertFail ==
    /\ ipc = "disc_upsert"
    /\ upsertFailsLeft > 0
    /\ upsertFailsLeft' = upsertFailsLeft - 1
    /\ Sent(batch_points)
    /\ DiscGoto(fi, pi, ci + 1, <<>>, point_id)
    /\ UNCHANGED embedFailsLeft
    /\ failedIds' = failedIds \cup PointIds(batch_points)
    /\ UNCHANGED embeddedCount
    /\ IngestFrame

\* upsert_batch_points called from ingest_discourse_data, lines 214-216
DiscFlushOK ==
    /\ ipc = "disc_flush"
    /\ Sent(batch_points)
    /\ DiscGoto(fi + 1, 1, 1, <<>>, point_id)
    /\ UNCHANGED <<embedFailsLeft, upsertFailsLeft>>
    /\ UNCHANGED <<embeddedCount, failedIds>>
    /\ IngestFrame

\* the same call, client.upsert raising
DiscFlushFail ==
    /\ ipc = "disc_flush"
    /\ upsertFailsLeft > 0
    /\ upsertFailsLeft' = upsertFailsLeft - 1
    /\ Sent(batch_points)
    /\ DiscGoto(fi + 1, 1, 1, <<>>, point_id)
    /\ UNCHANGED embedFailsLeft
    /\ failedIds' = failedIds \cup PointIds(batch_points)
    /\ UNCHANGED embeddedCount
    /\ IngestFrame

IngestNext ==
    \/ IngestStart
    \/ TdsEmbedOK
    \/ TdsEmbedFail
    \/ TdsUpsertOK
    \/ TdsUpsertFail
    \/ DiscEmbedOK
    \/ DiscEmbedFail
    \/ DiscUpsertOK
    \/ DiscUpsertFail
    \/ DiscFlushOK
    \/ DiscFlushFail

(***************************************************************************)
(* main.py: POST /query.  A text is a sequence of tokens: the literals     *)
(* "NO_DOCUMENTS_FOUND" and "SOURCES:", single characters ("[", "]", ",",  *)
(* " ", "\n", digits, letters) and "w", a word of the answer.  An id is an *)
(* integer or a string (a UUID); a string is a sequence of characters.     *)
(***************************************************************************)
IntId(n) == [t |-> "int", v |-> n]

StrId(chars) == [t |-> "str", v |-> chars]

\* Python's ==: an int and a str are never equal
SameId(a, b) == a.t = b.t /\ a.v = b.v

Digits == <<"0", "1", "2", "3", "4", "5", "6", "7", "8", "9">>

\* characters such as the superscript two: str.isdigit() is true of them and
\* int() rejects them
OtherDigits == {"^2"}

\* a character int() reads
IsDecimalChar(c) == \E d \in DOMAIN Digits : Digits[d] = c

\* a character of which str.isdigit() is true
IsDigitChar(c) == IsDecimalChar(c) \/ c \in OtherDigits

DigitValue(c) == (CHOOSE d \in DOMAIN Digits : Digits[d] = c) - 1

WhiteSpace == {" ", "\n"}

Sentinel == "NO_DOCUMENTS_FOUND"

SourcesWord == "SOURCES:"

RECURSIVE FormatInt(_)
\* f"{item['id']}" of an int
FormatInt(n) ==
    IF n < 10 THEN <<Digits[n + 1]>>
    ELSE FormatInt(n \div 10) \o <<Digits[(n % 10) + 1]>>

\* main.py line 106: the id as it is written into the prompt
FormatId(id) == IF id.t = "int" THEN FormatInt(id.v) ELSE id.v

RECURSIVE LStrip(_)
LStrip(t) == IF t # <<>> /\ Head(t) \in WhiteSpace THEN LStrip(Tail(t)) ELSE t

RECURSIVE RStrip(_)
RStrip(t) ==
    IF t # <<>> /\ t[Len(t)] \in WhiteSpace
    THEN RStrip(SubSeq(t, 1, Len(t) - 1)) ELSE t

\* str.strip()
Strip(t) == RStrip(LStrip(t))

\* str.isdigit()
IsDigit(t) == t # <<>> /\ \A i \in DOMAIN t : IsDigitChar(t[i])

RECURSIVE ToInt(_)
\* int(s) of a string of decimal digits
ToInt(t) ==
    IF t = <<>> THEN 0 ELSE 10 * ToInt(SubSeq(t, 1, Len(t) - 1)) + DigitValue(t[Len(t)])

RECURSIVE SkipWhile(_, _, _)
\* the first index from i on whose token is not in S (Len + 1 if none)
SkipWhile(t, i, S) ==
    IF i <= Len(t) /\ t[i] \in S THEN SkipWhile(t, i + 1, S) ELSE i

RECURSIVE CloseFrom(_, _)
\* (.*?)\]: the first "]" from i on with no "\n" before it, 0 if none
CloseFrom(t, i) ==
    IF i > Len(t) \/ t[i] = "\n" THEN 0
    ELSE IF t[i] = "]" THEN i
    ELSE CloseFrom(t, i + 1)

\* the pattern with (.+?) for (.*?): an empty list is no match
MatchAtBug(t, i) ==
    IF i > Len(t) \/ t[i] # SourcesWord THEN [open |-> 0, close |-> 0]
    ELSE LET j == SkipWhile(t, i + 1, WhiteSpace) IN
         IF j > Len(t) \/ t[j] # "[" THEN [open |-> 0, close |-> 0]
         ELSE IF j < Len(t) /\ t[j + 1] = "]" THEN [open |-> 0, close |-> 0]
         ELSE [open |-> j, close |-> CloseFrom(t, j + 1)]

\* SOURCES:\s*\[(.*?)\] matched at index i: the index of its "[" and of its
\* "]"; close = 0 when there is no match at i
MatchAt(t, i) ==
    IF i > Len(t) \/ t[i] # SourcesWord THEN [open |-> 0, close |-> 0]
    ELSE LET j == SkipWhile(t, i + 1, WhiteSpace) IN
         IF j > Len(t) \/ t[j] # "[" THEN [open |-> 0, close |-> 0]
         ELSE [open |-> j, close |-> CloseFrom(t, j + 1)]

RECURSIVE SearchSources(_, _)
\* re.search(r"SOURCES:\s*\[(.*?)\]", answer_full): the leftmost match from i
SearchSources(t, i) ==
    IF i > Len(t) THEN [open |-> 0, close |-> 0]
    ELSE IF MatchAt(t, i).close # 0 THEN MatchAt(t, i)
    ELSE SearchSources(t, i + 1)

RECURSIVE RemoveSources(_, _)
\* re.sub(r"\n*SOURCES:\s*\[.*?\]", "", answer_full), from index i on
RemoveSources(t, i) ==
    IF i > Len(t) THEN <<>>
    ELSE LET m == MatchAt(t, SkipWhile(t, i, {"\n"})) IN
         IF m.close # 0 THEN RemoveSources(t, m.close + 1)
         ELSE <<t[i]>> \o RemoveSources(t, i + 1)

RECURSIVE Split(_, _)
\* str.split(","): acc is the piece being read
Split(t, acc) ==
    IF t = <<>> THEN <<acc>>
    ELSE IF Head(t) = "," THEN <<acc>> \o Split(Tail(t), <<>>)
    ELSE Split(Tail(t), Append(acc, Head(t)))

ParseSourceIdBug(piece) == StrId(Strip(piece))

\* int(s) raises ValueError
ValueError == [t |-> "raise", v |-> 0]

\* main.py lines 160-165: one piece of the SOURCES list
ParseSourceId(piece) ==
    LET s_clean == Strip(piece) IN
    IF IsDigit(s_clean)
    THEN IF \A n \in DOMAIN s_clean : IsDecimalChar(s_clean[n])
         THEN IntId(ToInt(s_clean))
         ELSE ValueError
    ELSE StrId(s_clean)

\* main.py lines 155-168
ParseSourceIds(group) ==
    LET source_ids_str == Strip(group) IN
    IF source_ids_str = <<>> THEN <<>>
    ELSE LET pieces == Split(source_ids_str, <<>>) IN
         [n \in DOMAIN pieces |-> ParseSourceId(pieces[n])]

AllSourceIdsBug(ctx) == <<>>

\* main.py line 174: no SOURCES field, all passages
AllSourceIds(ctx) == [n \in DOMAIN ctx |-> ctx[n].id]

AnswerSourceLink(item) == [url |-> item.source, text |-> item.text]

\* main.py line 180: id_to_source[sid]; of two passages with one id the later
IdToSource(ctx, sid) ==
    LET n == CHOOSE n \in DOMAIN ctx :
                /\ SameId(ctx[n].id, sid)
                /\ \A m \in DOMAIN ctx : SameId(ctx[m].id, sid) => m <= n IN
    AnswerSourceLink(ctx[n])

InContexts(ctx, sid) == \E n \in DOMAIN ctx : SameId(ctx[n].id, sid)

RECURSIVE CollectLinks(_, _)
\* main.py line 181
CollectLinks(ctx, source_ids) ==
    IF source_ids = <<>> THEN <<>>
    ELSE (IF InContexts(ctx, Head(source_ids))
          THEN <<IdToSource(ctx, Head(source_ids))>> ELSE <<>>)
         \o CollectLinks(ctx, Tail(source_ids))

NoArticles ==
    [status |-> 200, answer |-> <<"No relevant articles found.">>, links |-> <<>>]

HttpError(code) == [status |-> code, answer |-> <<>>, links |-> <<>>]

StartsWithSentinelBug(t) == t = <<Sentinel>>

\* main.py line 148: answer_full.startswith("NO_DOCUMENTS_FOUND")
StartsWithSentinel(t) == t # <<>> /\ Head(t) = Sentinel

\* main.py lines 145-184: the response to a completion text
Respond(ctx, content) ==
    LET answer_full == Strip(content)
        source_match == SearchSources(answer_full, 1) IN
    IF StartsWithSentinel(answer_full) THEN NoArticles
    ELSE IF source_match.close # 0
    THEN LET source_ids ==
                 ParseSourceIds(SubSeq(answer_full, source_match.open + 1,
                                       source_match.close - 1)) IN
         IF \E n \in DOMAIN source_ids : source_ids[n] = ValueError
         THEN HttpError(500)
         ELSE [status |-> 200,
               answer |-> Strip(RemoveSources(answer_full, 1)),
               links |-> CollectLinks(ctx, source_ids)]
    ELSE [status |-> 200,
          answer |-> answer_full,
          links |-> CollectLinks(ctx, AllSourceIds(ctx))]

(***************************************************************************)
(* The index and the completion provider, as the request sees them.        *)
(***************************************************************************)
\* the points of the collection that a search can return
Passages ==
    << [id |-> IntId(2), text |-> "chunk-2", source |-> "url-2"],
       [id |-> IntId(15), text |-> "chunk-15", source |-> "url-15"],
       [id |-> StrId(<<"u", "-", "a">>), text |-> "chunk-u", source |-> "url-u"] >>

\* the ids a completion may list: those of the passages, then two that
\* belong to no passage, an integer and a superscript two
Citable ==
    [n \in DOMAIN Passages |-> Passages[n].id]
    \o <<IntId(7), StrId(<<"^2">>)>>

\* client.search: at most MaxHits distinct passages, in any order
Hits ==
    {[n \in DOMAIN h |-> Passages[h[n]]] :
        h \in DistinctSeqsUpTo(DOMAIN Passages, MaxHits)}

RECURSIVE JoinIds(_, _)
\* the listed ids, written as they stand in the prompt, with separator sep
JoinIds(ids, sep) ==
    IF ids = <<>> THEN <<>>
    ELSE IF Len(ids) = 1 THEN FormatId(Head(ids))
    ELSE FormatId(Head(ids)) \o sep \o JoinIds(Tail(ids), sep)

\* a second SOURCES line, with an empty list
EmptySourcesLine == <<"\n", SourcesWord, " ", "[", "]">>

\* a completion: some text, then possibly a SOURCES line listing ids, then
\* possibly more text or a second SOURCES line
Compositions ==
    [pre : SeqsUpTo({"w", "\n", Sentinel}, MaxPre),
     sources : BOOLEAN,
     cited : SeqsUpTo(DOMAIN Citable, MaxCited),
     spaced : BOOLEAN,
     post : {<<>>, <<"\n", "w">>, EmptySourcesLine}]

CitedIds(m) == [n \in DOMAIN m.cited |-> Citable[m.cited[n]]]

Compose(m) ==
    m.pre
    \o (IF m.sources
        THEN <<SourcesWord>> \o (IF m.spaced THEN <<" ">> ELSE <<>>) \o <<"[">>
             \o JoinIds(CitedIds(m), IF m.spaced THEN <<",", " ">> ELSE <<",">>)
             \o <<"]">>
        ELSE <<>>)
    \o m.post

NoComposition ==
    [pre |-> <<>>, sources |-> FALSE, cited |-> <<>>, spaced |-> FALSE,
     post |-> <<>>]

QueryInit ==
    /\ qpc = "start"
    /\ image \in {"none", "valid", "invalid"}
    /\ image_resp_text = "none"
    /\ contexts = <<>>
    /\ completion = <<>>
    /\ made = NoComposition
    /\ response = HttpError(0)
    /\ completionCalls = 0
    /\ returned = <<>>

QueryOff ==
    /\ qpc = "off"
    /\ image = "none"
    /\ image_resp_text = "none"
    /\ contexts = <<>>
    /\ completion = <<>>
    /\ made = NoComposition
    /\ response = HttpError(0)
    /\ completionCalls = 0
    /\ returned = <<>>

QueryFrame == UNCHANGED <<crawlVars, ingestVars, chunkVars, docsVars>>

\* a call (decode, vision, embed, search, chat) and what came back from it
Came(call, out) == [call |-> call, out |-> out]

NeedsCompletionBug(hits) == TRUE

\* main.py line 87: "if not search_result" returns at once
NeedsCompletion(hits) == hits # <<>>

\* main.py lines 38-40 and 69-72: no image; the question goes to the
\* embedding provider
QReceive ==
    /\ qpc = "start"
    /\ image = "none"
    /\ qpc' = "embed"
    /\ UNCHANGED <<image, image_resp_text, contexts, completion, made,
                   response, completionCalls>>
    /\ UNCHANGED returned
    /\ QueryFrame

\* main.py lines 40-65: an image that decodes; the vision pass is called
QReceiveImage ==
    /\ qpc = "start"
    /\ image = "valid"
    /\ qpc' = "vision"
    /\ completionCalls' = completionCalls + 1
    /\ UNCHANGED <<image, image_resp_text, contexts, completion, made,
                   response>>
    /\ UNCHANGED returned
    /\ QueryFrame

\* main.py line 41 and utils.py line 4: get_image_mime_type calls
\* base64.b64decode outside the try of lines 43-47; binascii.Error leaves the
\* handler and the framework answers 500
QReceiveBadImage ==
    /\ qpc = "start"
    /\ image = "invalid"
    /\ qpc' = "responded"
    /\ response' = HttpError(500)
    /\ UNCHANGED <<image, image_resp_text, contexts, completion, made,
                   completionCalls>>
    /\ returned' = Append(returned, Came("decode", "raise"))
    /\ QueryFrame

\* main.py lines 66-72: the description of the image, or None, which line 70
\* treats as no image
QVision ==
    /\ qpc = "vision"
    /\ image_resp_text' \in {"none", "text"}
    /\ qpc' = "embed"
    /\ UNCHANGED <<image, contexts, completion, made, response,
                   completionCalls>>
    /\ returned' = Append(returned, Came("vision", image_resp_text'))
    /\ QueryFrame

\* main.py lines 76-85: the embedding arrives; the index is searched
QEmbed ==
    /\ qpc = "embed"
    /\ qpc' = "search"
    /\ UNCHANGED <<image, image_resp_text, contexts, completion, made,
                   response, completionCalls>>
    /\ returned' = Append(returned, Came("embed", "vector"))
    /\ QueryFrame

\* a provider call raises (embedding, search or completion): the exception
\* leaves the handler
QProviderError ==
    /\ qpc \in {"vision", "embed", "search", "chat"}
    /\ qpc' = "responded"
    /\ response' = HttpError(500)
    /\ UNCHANGED <<image, image_resp_text, contexts, completion, made,
                   completionCalls>>
    /\ returned' = Append(returned, Came(qpc, "raise"))
    /\ QueryFrame

\* main.py lines 87-140: the search result; empty, the fixed answer; else the
\* prompt is built and the completion provider is called
QSearch ==
    /\ qpc = "search"
    /\ \E hits \in Hits :
          /\ contexts' = hits
          /\ IF ~NeedsCompletion(hits)
             THEN /\ qpc' = "responded"
                  /\ response' = NoArticles
                  /\ UNCHANGED completionCalls
             ELSE /\ qpc' = "chat"
                  /\ completionCalls' = completionCalls + 1
                  /\ UNCHANGED response
    /\ UNCHANGED <<image, image_resp_text, completion, made>>
    /\ returned' = Append(returned,
                          Came("search",
                               IF contexts' = <<>> THEN "empty" ELSE "hits"))
    /\ QueryFrame

\* main.py lines 141-144: the completion has no content
QChatNone ==
    /\ qpc = "chat"
    /\ qpc' = "responded"
    /\ response' = HttpError(500)
    /\ UNCHANGED <<image, image_resp_text, contexts, completion, made,
                   completionCalls>>
    /\ returned' = Append(returned, Came("chat", "none"))
    /\ QueryFrame

\* main.py lines 141-184: the completion text arrives and is answered
QChat ==
    /\ qpc = "chat"
    /\ \E m \in Compositions :
          /\ m.sources \/ (m.cited = <<>> /\ ~m.spaced)
          /\ m.sources \/ m.post # EmptySourcesLine
          /\ made' = m
          /\ completion' = Compose(m)
          /\ response' = Respond(contexts, Compose(m))
    /\ qpc' = "responded"
    /\ UNCHANGED <<image, image_resp_text, contexts, completionCalls>>
    /\ returned' = Append(returned, Came("chat", "text"))
    /\ QueryFrame

QueryNext ==
    \/ QReceive
    \/ QReceiveImage
    \/ QReceiveBadImage
    \/ QVision
    \/ QEmbed
    \/ QProviderError
    \/ QSearch
    \/ QChatNone
    \/ QChat

(***************************************************************************)
(* chunk_text (ingest.py lines 19-41, ingest_tds.py lines 17-39: the same   *)
(* body, other defaults).  A text is a sequence of characters: a letter, a *)
(* space and a sentence terminator.                                        *)
(***************************************************************************)
Terminators == {".", "!", "?"}

\* the characters of the texts explored
Chars == {"a", " ", "."}

RECURSIVE FindAll(_, _)
\* re.findall(r'[^.!?]*[.!?]', text, re.DOTALL): acc is the run read since
\* the last terminator; a run that no terminator ends matches nothing
FindAll(t, acc) ==
    IF t = <<>> THEN <<>>
    ELSE IF Head(t) \in Terminators
         THEN <<Append(acc, Head(t))>> \o FindAll(Tail(t), <<>>)
    ELSE FindAll(Tail(t), Append(acc, Head(t)))

\* line 35: current_chunk[-overlap:] if overlap < len(current_chunk) else
\* current_chunk; the slice [-0:] is the whole string
OverlapText(cur, ov) ==
    IF ov < Len(cur)
    THEN IF ov = 0 THEN cur ELSE SubSeq(cur, Len(cur) - ov + 1, Len(cur))
    ELSE cur

\* line 30: the sentence is added to the chunk at hand
Fits(cur, sentence, sz) == Len(cur) + Len(sentence) <= sz \/ cur = <<>>

ChunkInit ==
    /\ cpc = "start"
    /\ text \in SeqsUpTo(Chars, MaxText)
    /\ size \in 1..MaxSize
    /\ overlap \in 0..MaxOverlap
    /\ sentences = <<>>
    /\ si = 0
    /\ current_chunk = <<>>
    /\ chunks = <<>>
    /\ seeds = <<>>

ChunkOff ==
    /\ cpc = "off"
    /\ text = <<>>
    /\ size = 0
    /\ overlap = 0
    /\ sentences = <<>>
    /\ si = 0
    /\ current_chunk = <<>>
    /\ chunks = <<>>
    /\ seeds = <<>>

ChunkFrame ==
    UNCHANGED <<text, size, overlap, crawlVars, ingestVars, queryVars,
                docsVars>>

\* lines 26-28
ChunkFindAll ==
    /\ cpc = "start"
    /\ sentences' = FindAll(text, <<>>)
    /\ si' = 1
    /\ cpc' = "loop"
    /\ UNCHANGED <<current_chunk, chunks, seeds>>
    /\ ChunkFrame

\* lines 29-31: the sentence goes into the chunk at hand
ChunkExtend ==
    /\ cpc = "loop"
    /\ si <= Len(sentences)
    /\ Fits(current_chunk, sentences[si], size)
    /\ current_chunk' = current_chunk \o sentences[si]
    /\ si' = si + 1
    /\ UNCHANGED <<cpc, sentences, chunks, seeds>>
    /\ ChunkFrame

\* lines 32-36: the chunk at hand is emitted and a new one seeded
ChunkRollover ==
    /\ cpc = "loop"
    /\ si <= Len(sentences)
    /\ ~Fits(current_chunk, sentences[si], size)
    /\ chunks' = Append(chunks, Strip(current_chunk))
    /\ current_chunk' = OverlapText(current_chunk, overlap) \o sentences[si]
    /\ seeds' = Append(seeds, [emitted |-> Strip(current_chunk),
                               sentence |-> sentences[si]])
    /\ si' = si + 1
    /\ UNCHANGED <<cpc, sentences>>
    /\ ChunkFrame

\* lines 38-41
ChunkReturn ==
    /\ cpc = "loop"
    /\ si > Len(sentences)
    /\ chunks' = IF current_chunk # <<>>
                 THEN Append(chunks, Strip(current_chunk)) ELSE chunks
    /\ cpc' = "done"
    /\ UNCHANGED <<sentences, si, current_chunk, seeds>>
    /\ ChunkFrame

ChunkNext ==
    \/ ChunkFindAll
    \/ ChunkExtend
    \/ ChunkRollover
    \/ ChunkReturn

(***************************************************************************)
(* scrape_tds.py: scrape_url.  A url is a sequence of characters; Base is  *)
(* "https://tds.s-anand.net/" in one piece.  The site is a link graph: the *)
(* page of a route shows a sidebar of hrefs.                               *)
(***************************************************************************)
Base == "B"

\* the pages of the site
Routes == {"a", "b"}

\* the hrefs a sidebar may hold: routes with and without an id parameter in
\* the fragment, and a link that is not a route of the site
Hrefs ==
    { <<"#", "/", "a">>, <<"#", "/", "a", "?", "1">>,
      <<"#", "/", "b">>, <<"#", "/", "b", "?", "2">>,
      <<"h">> }

RECURSIVE Before(_, _)
\* s.split(c, 1)[0]: s up to the first c
Before(s, c) ==
    IF s = <<>> \/ Head(s) = c THEN <<>> ELSE <<Head(s)>> \o Before(Tail(s), c)

RECURSIVE After(_, _)
\* the part of s after the first c, empty when c is not in s
After(s, c) ==
    IF s = <<>> THEN <<>>
    ELSE IF Head(s) = c THEN Tail(s) ELSE After(Tail(s), c)

normalize_urlBug(url) == url

\* lines 25-31: scheme, netloc and path, then "#" and the fragment up to its
\* first "?"
normalize_url(url) ==
    Before(url, "#") \o <<"#">> \o Before(After(url, "#"), "?")

\* the page the browser shows for the url: the route of the fragment
RouteOf(url) ==
    LET r == Before(After(url, "#"), "?") IN
    IF Len(r) = 2 /\ r[1] = "/" THEN r[2] ELSE "a"

\* line 73: not href or not href.startswith("#/")
Ignored(href) ==
    IF Len(href) < 2 THEN TRUE ELSE ~(href[1] = "#" /\ href[2] = "/")

\* line 76: f"{BASE_URL}/{href}"
NextUrl(href) == <<Base>> \o href

DocsInit ==
    /\ dpc = "start"
    /\ sidebar \in [Routes -> SeqsUpTo(Hrefs, MaxLinks)]
    /\ start_url \in {<<Base, "#", "/", "a">>, <<Base, "#", "/", "a", "?", "1">>}
    /\ visited = {}
    /\ frames = <<>>
    /\ fetched = <<>>

DocsOff ==
    /\ dpc = "off"
    /\ sidebar = [r \in Routes |-> <<>>]
    /\ start_url = <<>>
    /\ visited = {}
    /\ frames = <<>>
    /\ fetched = <<>>

DocsFrame ==
    UNCHANGED <<sidebar, start_url, crawlVars, ingestVars, queryVars, chunkVars>>

\* visit(page, url), lines 35-69, up to the loop over the links: nothing if
\* the normalized url is in visited; else it is added, the page is fetched
\* and saved, and its sidebar links are collected
visit(url, stack) ==
    IF normalize_url(url) \in visited
    THEN /\ frames' = stack
         /\ UNCHANGED <<visited, fetched>>
    ELSE /\ visited' = visited \cup {normalize_url(url)}
         /\ fetched' = Append(fetched, url)
         /\ frames' = Append(stack, [links |-> sidebar[RouteOf(url)], i |-> 1])

\* the caller's frame once the link at hand is dealt with
Advance(stack) ==
    [stack EXCEPT ![Len(stack)].i = @ + 1]

\* lines 84-90: visit(page, start_url)
DocsStart ==
    /\ dpc = "start"
    /\ dpc' = "run"
    /\ visit(start_url, <<>>)
    /\ DocsFrame

\* lines 72-75: a link that is no route of the site is passed over
DocsIgnoreLink ==
    /\ dpc = "run"
    /\ frames # <<>>
    /\ LET f == frames[Len(frames)] IN
       /\ f.i <= Len(f.links)
       /\ Ignored(f.links[f.i])
    /\ frames' = Advance(frames)
    /\ UNCHANGED <<dpc, visited, fetched>>
    /\ DocsFrame

\* lines 76-80: the link's normalized url is in visited
DocsSkipLink ==
    /\ dpc = "run"
    /\ frames # <<>>
    /\ LET f == frames[Len(frames)] IN
       /\ f.i <= Len(f.links)
       /\ ~Ignored(f.links[f.i])
       /\ normalize_url(NextUrl(f.links[f.i])) \in visited
    /\ frames' = Advance(frames)
    /\ UNCHANGED <<dpc, visited, fetched>>
    /\ DocsFrame

\* line 81: visit(page, next_url)
DocsFollowLink ==
    /\ dpc = "run"
    /\ frames # <<>>
    /\ LET f == frames[Len(frames)] IN
       /\ f.i <= Len(f.links)
       /\ ~Ignored(f.links[f.i])
       /\ normalize_url(NextUrl(f.links[f.i])) \notin visited
       /\ visit(NextUrl(f.links[f.i]), Advance(frames))
    /\ UNCHANGED dpc
    /\ DocsFrame

\* the loop over the links ends: visit returns; the first call returns to
\* scrape_url, lines 91-92
DocsReturn ==
    /\ dpc = "run"
    /\ frames # <<>>
    /\ frames[Len(frames)].i > Len(frames[Len(frames)].links)
    /\ frames' = SubSeq(frames, 1, Len(frames) - 1)
    /\ dpc' = IF Len(frames) = 1 THEN "done" ELSE "run"
    /\ UNCHANGED <<visited, fetched>>
    /\ DocsFrame

\* lines 42-45 and 66: page.goto or a wait raises (a timeout); nothing
\* catches it and scrape_url ends
DocsError ==
    /\ dpc = "run"
    /\ frames # <<>>
    /\ dpc' = "failed"
    /\ frames' = <<>>
    /\ UNCHANGED <<visited, fetched>>
    /\ DocsFrame

DocsNext ==
    \/ DocsStart
    \/ DocsIgnoreLink
    \/ DocsSkipLink
    \/ DocsFollowLink
    \/ DocsReturn
    \/ DocsError

(***************************************************************************)
(* The programs off.                                                       *)
(***************************************************************************)
CrawlOff ==
    /\ snapshot = NoFile
    /\ ldjson = <<>>
    /\ other_ldjson = <<>>
    /\ pc = "off"
    /\ page = 0
    /\ all_posts = <<>>
    /\ topics_map = [t \in Topics |-> NoSlug]
    /\ posts = <<>>
    /\ k = 0
    /\ topic_id = 0
    /\ existing_post_ids = {}
    /\ post_ids = <<>>
    /\ idx = 0
    /\ rl = FALSE
    /\ results = <<>>
    /\ ckptAtStart = {}
    /\ reqRun = {}
    /\ fetchedRun = {}
    /\ appendedRun = {}
    /\ boundaryHit = FALSE
    /\ streamsDone = {}
    /\ fetchCount = [p \in PostIds |-> 0]
    /\ renamed = FALSE

(***************************************************************************)
(* Specifications.                                                         *)
(***************************************************************************)
\* the crawler alone, the ingestion and the service left off
InitCrawl == CrawlInit /\ IngestOff /\ QueryOff /\ ChunkOff /\ DocsOff

\* the ingestion alone
InitIngest == CrawlOff /\ IngestInit /\ QueryOff /\ ChunkOff /\ DocsOff

\* one request to the service alone
InitQuery == CrawlOff /\ IngestOff /\ QueryInit /\ ChunkOff /\ DocsOff

\* one call of chunk_text alone
InitChunk == CrawlOff /\ IngestOff /\ QueryOff /\ ChunkInit /\ DocsOff

\* one run of scrape_url alone
InitDocs == CrawlOff /\ IngestOff /\ QueryOff /\ ChunkOff /\ DocsInit

Init ==
    \/ InitCrawl
    \/ InitIngest
    \/ InitQuery
    \/ InitChunk
    \/ InitDocs

Next ==
    \/ CrawlNext
    \/ IngestNext
    \/ QueryNext
    \/ ChunkNext
    \/ DocsNext

Spec == Init /\ [][Next]_vars

CrawlSpec == InitCrawl /\ [][CrawlNext]_vars

\* a running process goes on to its next statement: the snapshot write that
\* save_posts has begun completes unless the process is killed
FairCrawlSpec == CrawlSpec /\ WF_vars(SaveWrite)

\* the crawl when no request fails with another error and the process is
\* not killed
QuietCrawlNext ==
    \/ Start
    \/ SearchRateLimited
    \/ SearchOK
    \/ TopicRateLimited
    \/ TopicOK
    \/ PostRateLimited
    \/ PostOK
    \/ RepliesRateLimited
    \/ RepliesOK
    \/ SaveWrite
    \/ TopicRenamed

\* every rate-limit episode ends: a request that is repeated (sleep, then
\* continue) is answered in the end; the snapshot write completes
QuietCrawlSpec ==
    /\ InitCrawl
    /\ [][QuietCrawlNext]_vars
    /\ WF_vars(SearchOK)
    /\ WF_vars(TopicOK)
    /\ WF_vars(PostOK)
    /\ WF_vars(RepliesOK)
    /\ WF_vars(SaveWrite)

IngestSpec == InitIngest /\ [][IngestNext]_vars

QuerySpec == InitQuery /\ [][QueryNext]_vars

ChunkSpec == InitChunk /\ [][ChunkNext]_vars

DocsSpec == InitDocs /\ [][DocsNext]_vars

(***************************************************************************)
(* The forum crawl: properties.                                            *)
(***************************************************************************)
Running == pc \in RequestStates \cup {"saving"}

\* C1: a run issues no post-details or replies request for a post of the
\* merged checkpoint it loaded, and every post id of a topic stream it
\* processed (to the end, or up to the post it is waiting on) is in that
\* checkpoint or was requested by this run.
C1_Resumable ==
    /\ reqRun \cap ckptAtStart = {}
    /\ pc \in {"post", "replies"} => post_ids[idx] \notin ckptAtStart
    /\ pc \in {"post", "replies"} =>
          \A j \in 1..idx : post_ids[j] \in ckptAtStart \cup reqRun
    /\ \A t \in streamsDone :
          \A p \in Range(Stream(t)) : p \in ckptAtStart \cup reqRun

\* a restarted run that has processed a stream holding a checkpointed post
\* and a post it had to request
C1_Witness ==
    /\ Ids(ldjson) # {}
    /\ \E t \in streamsDone :
          /\ Range(Stream(t)) \cap ckptAtStart # {}
          /\ Range(Stream(t)) \cap reqRun # {}

\* C2: every in-window post fetched by the run is in the log before the next
\* request; a restart loads the checkpoint successfully, whatever the point
\* of the crash, and the loaded checkpoint holds every post of the log.
C2_CrashSafe ==
    /\ \A p \in fetchedRun : InWindow(p) => p \in Ids(ldjson)
    /\ pc # "load_failed"
    /\ Running => Ids(ldjson) \subseteq Range(all_posts)

\* C4: over all runs of the window, restarts included, the details of a post
\* are fetched (fetch_post_details returns them) at most once, whatever the
\* post's timestamp.
C4_NoRefetch == \A p \in PostIds : fetchCount[p] <= 1

\* C5: a response with the rate-limit signal changes neither the page
\* counter, the collected posts, the log, the snapshot nor the topic map, and
\* leaves the process waiting on exactly the same request (same kind, same
\* page number, topic id or post id).
C5_RateLimitRetry ==
    [][rl' =>
         /\ pc \in RequestStates
         /\ pc' = pc
         /\ PendingRequest' = PendingRequest
         /\ page' = page
         /\ all_posts' = all_posts
         /\ diskVars' = diskVars
         /\ topics_map' = topics_map]_vars

\* a replies request is retried after a rate-limited response, in a run that
\* has collected posts and is past page 1
C5_Witness == rl /\ pc = "replies" /\ all_posts # <<>> /\ page > 1

\* C6: once a run has met a search-result post older than start it has no
\* request pending (it is writing the snapshot or is done), the snapshot it
\* ends with holds all collected posts, and it ends in DONE unless it is
\* killed.
C6_BoundaryTerminates ==
    /\ [](boundaryHit => pc \in {"saving", "done"})
    /\ [](boundaryHit /\ pc = "done" =>
             snapshot = JsonFile(save_posts(all_posts, topics_map)))
    /\ (boundaryHit ~> (pc = "done" \/ pc = "dead"))

\* a run ended by the start boundary after it collected a post
C6_Witness == boundaryHit /\ pc = "done" /\ appendedRun # {}

\* C7: at DONE the snapshot is a JSON array with an entry for every post of
\* the checkpoint loaded at start and for every post the run appended to the
\* log; no step deletes or truncates a log file.
C7_TerminalSnapshot ==
    /\ [](pc = "done" =>
             /\ snapshot.state = "json"
             /\ ckptAtStart \cup appendedRun \subseteq Ids(snapshot.entries))
    /\ [][IsPrefix(ldjson, ldjson') /\ IsPrefix(other_ldjson, other_ldjson')]_vars

\* a finished run that had loaded posts and appended others
C7_Witness == pc = "done" /\ ckptAtStart # {} /\ appendedRun # {}

\* C8: every post in the window's log and in the window's snapshot has its
\* timestamp inside [start, end].
C8_WindowFilter ==
    /\ \A i \in DOMAIN ldjson : InWindow(ldjson[i].id)
    /\ \A i \in DOMAIN snapshot.entries : InWindow(snapshot.entries[i].id)

\* C27: when no request fails with another error and every rate-limit
\* episode ends, a run that waits on a request reaches DONE; DONE is reached
\* from the snapshot write only, and in a run the snapshot file changes twice:
\* when save_posts opens it and when the one json.dump of the run completes.
C27_Termination ==
    /\ (pc \in RequestStates) ~> (pc = "done")
    /\ [][(pc' = "done" /\ pc # "done") =>
             (pc = "saving" /\ snapshot'.state = "json")]_vars
    /\ [][pc = "saving" => pc' \in {"saving", "done"}]_vars
    /\ [][snapshot' # snapshot =>
             \/ pc # "saving" /\ pc' = "saving" /\ snapshot'.state = "partial"
             \/ pc = "saving" /\ pc' = "done" /\ snapshot'.state = "json"]_vars

\* a run went through the result pages to the empty one, logged posts and
\* is DONE with its snapshot
C27_Witness ==
    /\ pc = "done"
    /\ ~boundaryHit
    /\ page >= 2
    /\ appendedRun # {}
    /\ snapshot.state = "json"
    /\ Ids(snapshot.entries) = Range(all_posts)

\* the entries of the checkpoint: the logs and the snapshot
AllEntries ==
    Range(ldjson) \cup Range(other_ldjson) \cup Range(snapshot.entries)

\* C22: an entry once in the checkpoint (a log or the snapshot) is in every
\* later checkpoint, over all runs and restarts, and the checkpoint never
\* holds two entries of one post that differ in the url (the slug): the
\* snapshot's url of a post is the log's.
C22_WriteOnce ==
    /\ [][AllEntries \subseteq AllEntries']_vars
    /\ [](\A e1 \in AllEntries : \A e2 \in AllEntries :
             e1.id = e2.id => e1.slug = e2.slug)

\* the topic was renamed after a post of it was logged, and a later run wrote
\* the snapshot with that post and one logged after the renaming
C22_Witness ==
    /\ renamed
    /\ pc = "done"
    /\ ckptAtStart # {}
    /\ appendedRun # {}
    /\ \E i \in DOMAIN snapshot.entries :
          /\ Forum[snapshot.entries[i].id].topic = 1
          /\ snapshot.entries[i].slug = "slug-a"
          /\ snapshot.entries[i].id \in appendedRun

\* no value stands twice in the sequence
NoDuplicate(q) == \A i \in DOMAIN q : \A j \in DOMAIN q : q[i] = q[j] => i = j

\* the post ids of the entries, in order
IdSeq(entries) == [i \in DOMAIN entries |-> entries[i].id]

\* C28: over all runs and crashes of the window, no post id stands twice in
\* the collected posts, in the window's log or in the snapshot.
C28_NoDuplicates ==
    /\ NoDuplicate(all_posts)
    /\ NoDuplicate(IdSeq(ldjson))
    /\ NoDuplicate(IdSeq(snapshot.entries))

\* a run that loaded a snapshot and a log holding the same posts and has
\* gone through the stream of a topic of theirs
C28_Witness ==
    /\ pc \in RequestStates
    /\ snapshot.state = "json"
    /\ Ids(snapshot.entries) \cap Ids(ldjson) \cap ckptAtStart # {}
    /\ \E t \in streamsDone : Range(Stream(t)) \cap ckptAtStart # {}
    /\ Len(all_posts) >= 2

(***************************************************************************)
(* Ingestion: properties.                                                  *)
(***************************************************************************)
\* C3: in one ingest() run over both families no two points handed to
\* client.upsert share an id: the ids sent so far are as many as the points.
C3_UniqueIds == Cardinality(upsertedIds) = sentCount

\* C19: when a run is over, every chunk whose embedding came back has been
\* handed to client.upsert, once: the points sent are as many as the
\* embeddings received, whichever embedding calls failed.
C19_EmbedFailureIsolation == ipc = "done" => sentCount = embeddedCount

\* C20: no point waiting for, or handed to, an upsert carries the id of a
\* point of a batch whose upsert failed: a failed batch is not issued again
\* and its ids are not given to later chunks.
C20_UpsertFailure == PointIds(batch_points) \cap failedIds = {}

\* C21: a reply body that cannot be decoded never aborts the ingestion run.
C21_NormalizerGraceful == ipc # "aborted"

\* C24: in both families the batch never holds more than 100 points; no
\* embedding call is made while the batch holds 100 points (the full batch was
\* upserted first); every call of client.upsert carries 1 to 100 points.
C24_Batching ==
    /\ Len(batch_points) <= BatchSize
    /\ ipc \in {"tds_embed", "disc_embed"} => Len(batch_points) < BatchSize
    /\ ipc \in {"tds_upsert", "disc_upsert", "disc_flush"} =>
          Len(batch_points) >= 1 /\ Len(batch_points) <= BatchSize

\* a full batch of 100 was upserted and the chunk after it is being embedded
C24_Witness ==
    /\ ipc \in {"tds_embed", "disc_embed"}
    /\ sentCount = BatchSize
    /\ batch_points = <<>>
    /\ embeddedCount = BatchSize

\* ingest_tds_data is at work
TdsFamily == ipc \in {"tds_embed", "tds_upsert"}

\* ingest_discourse_data is at work
DiscFamily == ipc \in {"disc_embed", "disc_upsert", "disc_flush"}

\* C26: a family's counter starts at its offset; within the family every
\* successful embedding gives the new point the counter's value and raises
\* the counter by one, and nothing else changes it (not a failed embedding,
\* not a post without chunks, not the next document): the identifiers are
\* offset, offset + 1, ... in the order of the successful embeddings.
C26_IdCounter ==
    [][/\ (~TdsFamily /\ TdsFamily') => point_id' = TdsOffset
       /\ (~DiscFamily /\ DiscFamily') => point_id' = DiscourseOffset
       /\ ((TdsFamily /\ TdsFamily') \/ (DiscFamily /\ DiscFamily')) =>
             /\ point_id' = point_id + (embeddedCount' - embeddedCount)
             /\ embeddedCount' # embeddedCount =>
                   /\ batch_points' # <<>>
                   /\ batch_points'[Len(batch_points')].id = point_id
       /\ \A n \in DOMAIN batch_points :
             batch_points[n].id = point_id - Len(batch_points) + n - 1]_vars

\* the second document of the forum family is being embedded after a post
\* without chunks was passed and an embedding failed: two identifiers given
\* for three chunks
C26_Witness ==
    /\ tds_files = <<>>
    /\ disc_files = <<GoodFile(<<0, 1>>), BadFile, GoodFile(<<SmallChunks, 1>>)>>
    /\ ipc = "disc_embed"
    /\ fi = 3
    /\ pi = 2
    /\ embeddedCount = SmallChunks
    /\ point_id = DiscourseOffset + SmallChunks
    /\ Len(batch_points) = SmallChunks - 1

(***************************************************************************)
(* The service: properties.                                                *)
(***************************************************************************)
\* a request answered from a completion text
Answered == qpc = "responded" /\ response.status = 200 /\ contexts # <<>>

\* the first token of the completion after leading white space is the sentinel
SentinelFirst ==
    \E n \in DOMAIN completion :
        /\ completion[n] = Sentinel
        /\ \A j \in 1..(n - 1) : completion[j] \in WhiteSpace

\* every id the SOURCES line lists is the id of a retrieved passage
ListedRetrieved ==
    \A n \in DOMAIN made.cited : InContexts(contexts, CitedIds(made)[n])

\* the url/text pair of the retrieved passage with id sid
PairOf(sid) ==
    LET item == CHOOSE item \in Range(contexts) : SameId(item.id, sid) IN
    [url |-> item.source, text |-> item.text]

ListedPairs == [n \in DOMAIN made.cited |-> PairOf(CitedIds(made)[n])]

RoundTrips ==
    /\ response.links = ListedPairs
    /\ \A i \in DOMAIN response.answer :
          response.answer[i] \notin {SourcesWord, "[", "]"}

\* a is t without its leading and trailing white space
IsTrimOf(a, t) ==
    \E i \in 0..Len(t) :
        /\ i + Len(a) <= Len(t)
        /\ \A j \in DOMAIN a : a[j] = t[i + j]
        /\ \A j \in DOMAIN t : (j <= i \/ j > i + Len(a)) => t[j] \in WhiteSpace
        /\ a # <<>> => a[1] \notin WhiteSpace /\ a[Len(a)] \notin WhiteSpace

\* C9, as stated: whenever the completion has a SOURCES line whose ids are
\* all ids of retrieved passages, written as in the prompt, the links are the
\* url/text pairs of the listed ids in the listed order and the answer holds
\* no SOURCES line.
C9_RoundTripAnyText ==
    Answered /\ made.sources /\ ListedRetrieved => RoundTrips

\* C9, amended: the same for a completion that does not start with the
\* sentinel NO_DOCUMENTS_FOUND.
C9_RoundTrip ==
    Answered /\ made.sources /\ ListedRetrieved /\ ~SentinelFirst => RoundTrips

\* text, then a SOURCES line listing the string id and then the integer id 15,
\* the reverse of the order in which the two passages were retrieved
C9_Witness ==
    /\ Answered /\ made.sources /\ ~SentinelFirst
    /\ made.pre = <<"w", "\n">>
    /\ Len(contexts) = 2 /\ contexts[1].id = IntId(15)
    /\ Len(made.cited) = 2 /\ CitedIds(made)[1].t = "str"
    /\ CitedIds(made)[2] = IntId(15)
    /\ Len(response.links) = 2
    /\ response.links[2].url = "url-15"

\* C10: a completion without a SOURCES line that does not start with the
\* sentinel, over a non-empty retrieved set, is answered with the links of all
\* retrieved passages in retrieval order and with the completion, trimmed, as
\* answer.
C10_FailOpen ==
    Answered /\ ~made.sources /\ ~SentinelFirst =>
        /\ response.links =
              [n \in DOMAIN contexts |->
                  [url |-> contexts[n].source, text |-> contexts[n].text]]
        /\ IsTrimOf(response.answer, completion)

\* two passages retrieved, a completion of a line break and a word
C10_Witness ==
    /\ Answered /\ ~made.sources /\ ~SentinelFirst
    /\ Len(contexts) = 2
    /\ completion = <<"\n", "w">>
    /\ response.answer = <<"w">>
    /\ Len(response.links) = 2

\* the request is over and a call of it came back with out
CameBack(call, out) ==
    /\ qpc = "responded"
    /\ \E n \in DOMAIN returned : returned[n] = Came(call, out)

\* C11, as stated: a request, with or without an image, whose search returns
\* zero hits is answered 'No relevant articles found.' with no links, and no
\* completion-provider call was made for it.
C11_EmptyNoCall ==
    CameBack("search", "empty") => response = NoArticles /\ completionCalls = 0

\* C11, amended: such a request is answered 'No relevant articles found.' with
\* no links and no completion-provider call is made for the answer; with an
\* image exactly one call, the image description before the search, was made.
C11_EmptyRetrieval ==
    CameBack("search", "empty") =>
        /\ response = NoArticles
        /\ \A n \in DOMAIN returned : returned[n].call # "chat"
        /\ completionCalls = IF image = "none" THEN 0 ELSE 1

\* a request with an image whose search returned nothing
C11_Witness ==
    /\ CameBack("search", "empty")
    /\ image = "valid"
    /\ response.answer = <<"No relevant articles found.">>
    /\ completionCalls = 1

\* the ids of the SOURCES line that are ids of retrieved passages, in the
\* order of the line
CitedRetrieved ==
    SelectSeq(CitedIds(made), LAMBDA sid : InContexts(contexts, sid))

\* C12: a completion with a SOURCES line is answered without an error; its
\* links are url/text pairs of retrieved passages, in the order in which
\* their ids are cited, the cited ids of no retrieved passage left out (no
\* links at all when the completion starts with the sentinel).
C12_Projection ==
    CameBack("chat", "text") /\ made.sources =>
        /\ response.status = 200
        /\ \/ response.links =
                 [n \in DOMAIN CitedRetrieved |-> PairOf(CitedRetrieved[n])]
           \/ SentinelFirst /\ response.links = <<>>

\* C13: a completion that, trimmed, starts with the sentinel is answered
\* 'No relevant articles found.' with no links, whatever follows the sentinel.
C13_SentinelShortCircuit ==
    CameBack("chat", "text") /\ SentinelFirst => response = NoArticles

\* a line break, the sentinel, and a SOURCES line that cites a retrieved
\* passage
C13_Witness ==
    /\ CameBack("chat", "text")
    /\ made.pre = <<"\n", Sentinel>>
    /\ made.sources /\ made.cited # <<>> /\ ListedRetrieved
    /\ response.links = <<>>
    /\ response.answer = <<"No relevant articles found.">>

\* C14: a request whose image is not decodable base64 ends with the client
\* error 400, and no provider call was made for it.
C14_InvalidImageClientError ==
    qpc = "responded" /\ image = "invalid" =>
        /\ response.status = 400
        /\ completionCalls = 0
        /\ \A n \in DOMAIN returned : returned[n].call = "decode"

\* C15: once a completion-provider call of the request, the image description
\* or the answer, has come back without text, the request is over with a
\* server error.
C15_NoTextServerError ==
    (\E n \in DOMAIN returned :
        returned[n].call \in {"vision", "chat"} /\ returned[n].out = "none")
    => qpc = "responded" /\ response.status = 500

\* a SOURCES line stands in the completion: the word at i, its "[" at o and
\* its "]" at c
SourcesLineAt(i, o, c) ==
    /\ i < o /\ o < c
    /\ completion[i] = SourcesWord
    /\ completion[o] = "["
    /\ completion[c] = "]"
    /\ \A j \in (i + 1)..(o - 1) : completion[j] \in WhiteSpace
    /\ \A j \in (o + 1)..(c - 1) : completion[j] \notin {"\n", "]"}

\* the SOURCES line at i lists nothing
EmptyListAt(i) ==
    \E o \in DOMAIN completion : \E c \in DOMAIN completion :
        /\ SourcesLineAt(i, o, c)
        /\ \A j \in (o + 1)..(c - 1) : completion[j] = " "

\* no link, and no SOURCES line in the answer
NothingCited ==
    /\ response.links = <<>>
    /\ \A i \in DOMAIN response.answer :
          response.answer[i] \notin {SourcesWord, "[", "]"}

\* C29, as stated: over a non-empty retrieved set, a completion that holds a
\* SOURCES line with an empty list is answered with no links and without the
\* SOURCES line.
C29_EmptyCitationAnyLine ==
    Answered /\ (\E i \in DOMAIN completion : EmptyListAt(i)) => NothingCited

\* C29, amended: the same for a completion whose first SOURCES line has the
\* empty list.
C29_EmptyCitation ==
    Answered /\ (\E i \in DOMAIN completion :
                    /\ EmptyListAt(i)
                    /\ \A j \in 1..(i - 1) :
                          \A o \in DOMAIN completion :
                              \A c \in DOMAIN completion :
                                  ~SourcesLineAt(j, o, c))
        => NothingCited

\* two passages retrieved, a completion of a word and SOURCES: [] that does
\* not start with the sentinel
C29_Witness ==
    /\ Answered /\ ~SentinelFirst
    /\ Len(contexts) = 2
    /\ made.sources /\ made.cited = <<>> /\ made.spaced
    /\ completion = <<"w", SourcesWord, " ", "[", "]">>
    /\ response.answer = <<"w">>
    /\ response.links = <<>>

(***************************************************************************)
(* chunk_text: properties.                                                 *)
(***************************************************************************)
\* chunk c stands in the text from position p on
OccursAt(c, p) ==
    /\ p + Len(c) - 1 <= Len(text)
    /\ \A j \in DOMAIN c : c[j] = text[p + j - 1]

\* C16: when chunk_text returns, every character of the text lies inside a
\* returned chunk: some chunk stands in the text over the character's place.
C16_Coverage ==
    cpc = "done" =>
        \A i \in DOMAIN text :
            \E n \in DOMAIN chunks : \E p \in 1..i :
                OccursAt(chunks[n], p) /\ i < p + Len(chunks[n])

\* the last ov characters of c, all of c when it has no more than ov
Suffix(c, ov) ==
    IF Len(c) <= ov THEN c ELSE SubSeq(c, Len(c) - ov + 1, Len(c))

\* C17: when chunk_text returns, every chunk after the first begins with the
\* last overlap characters of the chunk emitted before it (all of it when it
\* is shorter), followed by the sentence that caused the rollover.
C17_Overlap ==
    cpc = "done" =>
        \A n \in DOMAIN chunks : n > 1 =>
            /\ seeds[n - 1].emitted = chunks[n - 1]
            /\ IsPrefix(Suffix(chunks[n - 1], overlap)
                           \o seeds[n - 1].sentence, chunks[n])

\* c is one sentence: it ends with its only terminator
OneSentence(c) ==
    /\ c # <<>>
    /\ c[Len(c)] \in Terminators
    /\ \A j \in 1..(Len(c) - 1) : c[j] \notin Terminators

\* C18: when chunk_text returns, every chunk has at most size characters or
\* is one single sentence.
C18_SizeBound ==
    cpc = "done" =>
        \A n \in DOMAIN chunks :
            Len(chunks[n]) <= size \/ OneSentence(chunks[n])

RECURSIVE EndOf(_, _)
\* the place in the text of the last character of sentence j (the matches of
\* re.findall stand one after the other from the start of the text)
EndOf(ss, j) == IF j = 0 THEN 0 ELSE EndOf(ss, j - 1) + Len(ss[j])

\* C23: the chunk at hand, which is emitted as it stands or after sentences
\* are added at its end, ends where a sentence ends and does not start
\* strictly inside a sentence of the text (white space aside, which strip
\* removes) unless that sentence alone is longer than size.
C23_SentenceIntegrity ==
    (cpc = "loop" /\ current_chunk # <<>>) =>
        LET S == EndOf(sentences, si - 1) - Len(current_chunk) IN
        /\ OccursAt(current_chunk, S + 1)
        /\ \A j \in 1..(si - 1) :
              (EndOf(sentences, j - 1) < S /\ S < EndOf(sentences, j)) =>
                  \/ Len(sentences[j]) > size
                  \/ \A q \in (EndOf(sentences, j - 1) + 1)..S :
                         text[q] \in WhiteSpace

(***************************************************************************)
(* scrape_url: properties.                                                 *)
(***************************************************************************)
\* u and v differ at most in the query parameters inside the fragment: they
\* agree up to a place where each ends or goes on with "?"
SamePage(u, v) ==
    \E n \in 0..Min(Len(u), Len(v)) :
        /\ SubSeq(u, 1, n) = SubSeq(v, 1, n)
        /\ n = Len(u) \/ u[n + 1] = "?"
        /\ n = Len(v) \/ v[n + 1] = "?"

\* C25: in one run of scrape_url, whatever the link graph, no two calls of
\* page.goto are for the same url or for urls that differ only in the query
\* parameters inside the fragment: a page is fetched at most once.
C25_VisitedOnce ==
    \A i \in DOMAIN fetched : \A j \in DOMAIN fetched :
        SamePage(fetched[i], fetched[j]) => i = j

\* a run over a cycle is done: page a links to b, page b links back to a
\* with an id parameter, and each was fetched once
C25_Witness ==
    /\ dpc = "done"
    /\ start_url = <<Base, "#", "/", "a">>
    /\ sidebar["a"] = << <<"#", "/", "b", "?", "2">>, <<"#", "/", "b">> >>
    /\ sidebar["b"] = << <<"#", "/", "a", "?", "1">> >>
    /\ fetched = << <<Base, "#", "/", "a">>, <<Base, "#", "/", "b", "?", "2">> >>

====
